---- MODULE Spec2Model ----
(***************************************************************************)
(* Model of the recording coordinator of                                   *)
(* src/components/recording/VideoRecorder.tsx: the React component state,  *)
(* the handlers scanForCameras / startRecording / stopRecording between    *)
(* their awaits, the record button that dispatches to them, and the        *)
(* collaborators they call (camera, GPS sampler, timer, upload).           *)
(*                                                                         *)
(* Every action is one run of JavaScript between two suspension points:    *)
(* a press runs the handler up to its first await; the resolution of an    *)
(* awaited promise runs the continuation up to the next await.             *)
(*                                                                         *)
(* The camera is a black box with the interface start -> ack | error,      *)
(* stop -> artifact | error.  It answers requests in the order they were   *)
(* made, the await on its start resolves when the capture has begun, and   *)
(* a stop finds an artifact only if a capture exists (running or ended at  *)
(* a cap); a stop on an idle camera is an error.                           *)
(*                                                                         *)
(* The hooks useGPS, useVideoRecording and useVideoUpload are not part of  *)
(* the file; what their functions do is taken from the design document:    *)
(* stopGpsTracking ends sampling and clears the log, uploadRecording stops *)
(* the sampler, submits artifact and log, and resets the session through   *)
(* the setters it is given once the pipeline reports its outcome.          *)
(***************************************************************************)
EXTENDS Integers, Sequences, FiniteSets, TLC

\* ---------------------------------------------------------------- bounds
MaxCalls == 3       \* handler invocations (startRecording + stopRecording)
MaxScans == 2       \* scanForCameras invocations, the one on mount included
MaxTime  == 1       \* elapsed-time ticks counted
MaxLog   == 1       \* GPS fixes held in the log

\* ------------------------------------------------------ program constants
ImagingClass == 6   \* device.getDeviceClass() === 6

NoDevice == [id |-> "none", type |-> "none"]     \* selectedCamera === null
NoData   == [sess |-> 0, duration |-> 0]          \* no artifact

\* The durations the camera may report with an artifact: its own
\* measurement, which the component's seconds counter may or may not match.
CamDurations == { 0, 1 }

\* Results the two enumerations deliver while a recording is followed.
BuiltinLists == { <<[id |-> "cam0"]>> }
UsbLists ==
  { <<[deviceId |-> "usb2", class |-> 3]>>,
    <<[deviceId |-> "usb2", class |-> 3], [deviceId |-> "usb1", class |-> 6]>> }

\* Results the two enumerations deliver when the scans alone are followed.
AnyBuiltinLists == { <<>>, <<[id |-> "cam0"]>>, <<[id |-> "cam0"], [id |-> "cam1"]>> }
AnyUsbLists ==
  { <<>>,
    <<[deviceId |-> "usb1", class |-> 6]>>,
    <<[deviceId |-> "usb2", class |-> 7]>>,
    <<[deviceId |-> "usb3", class |-> 0], [deviceId |-> "usb1", class |-> 6]>>,
    <<[deviceId |-> "usb1", class |-> 6], [deviceId |-> "usb2", class |-> 7]>> }

VARIABLES
  hasPermission,   \* "null" | "yes" | "no"            (useState, l.15)
  cameras,         \* sequence of devices               (useState, l.13)
  selectedCamera,  \* a device or NoDevice              (useState, l.14)
  loading,         \* BOOLEAN                           (useState, l.17)
  isRecording,     \* BOOLEAN                           (useVideoRecording)
  recordingTime,   \* tick-driven elapsed seconds       (useVideoRecording)
  timerRunning,    \* the interval behind timerRef is armed
  gpsActive,       \* the sampler is sampling
  gpsEnabled,      \* flag shown by the UI
  hasGpsError,     \* flag shown by the UI
  gpsLog,          \* gpsLogRef: sequence of fixes
  cam,             \* camera subsystem: "idle" | "recording" | "capped"
  camSess,         \* session whose capture the camera holds (0: none)
  camQueue,        \* handler ids whose camera request is pending, FIFO
  handlers,        \* handlers suspended at an await
  scans,           \* scanForCameras runs suspended at an await
  calls,           \* handler invocations so far
  nScans,          \* scan invocations so far
  lastScan,        \* history: the scan completed last (id, ok), the scan
                   \* whose list is shown (shown, devices, usb) and the
                   \* successful scan started last (maxOk, maxList)
  sessions,        \* history: one record per accepted startRecording
  handoffs,        \* history: what uploadRecording was given
  failedUploads,   \* history: artifacts whose upload reported failure
  ev               \* history: the coordinator's latest step

vars == << hasPermission, cameras, selectedCamera, loading, isRecording,
           recordingTime, timerRunning, gpsActive, gpsEnabled, hasGpsError,
           gpsLog, cam, camSess, camQueue, handlers, scans, calls, nScans,
           lastScan, sessions, handoffs, failedUploads, ev >>

deviceVars == << hasPermission, cameras, selectedCamera, scans, nScans,
                lastScan >>
recVars    == << loading, isRecording, recordingTime, timerRunning >>
gpsVars    == << gpsActive, gpsEnabled, hasGpsError, gpsLog >>
camVars    == << cam, camSess, camQueue >>
histVars   == << sessions, handoffs, failedUploads >>

\* The latest step of the coordinator (a handler's call or continuation, a
\* camera event): its name, the handler it belongs to and, for a call of
\* startRecording / stopRecording, what the coordinator looked like when the
\* call was made and whether the call went on to act.  Scans, selections,
\* ticks and fixes are not recorded.
Event(type, h, busy, idle, accepted) ==
  [type |-> type, h |-> h, busy |-> busy, idle |-> idle, accepted |-> accepted]

Plain(type, h) == Event(type, h, FALSE, FALSE, FALSE)

\* Session states of the coordinator, read off the component state.
InFlight(kind) == { h \in handlers : h.kind = kind }

\* The record of session id, and the session started last (0: none yet).
SessionOf(id) == CHOOSE s \in sessions : s.id = id

CurrentSession ==
  IF sessions = {} THEN 0
  ELSE CHOOSE n \in { s.id : s \in sessions } : \A s \in sessions : s.id <= n

Idle == ~isRecording /\ ~loading /\ handlers = {}

Init ==
  /\ hasPermission = "null"
  /\ cameras = <<>>
  /\ selectedCamera = NoDevice
  /\ loading = FALSE
  /\ isRecording = FALSE
  /\ recordingTime = 0
  /\ timerRunning = FALSE
  /\ gpsActive = FALSE
  /\ gpsEnabled = FALSE
  /\ hasGpsError = FALSE
  /\ gpsLog = <<>>
  /\ cam = "idle"
  /\ camSess = 0
  /\ camQueue = <<>>
  /\ handlers = {}
  /\ scans = { [id |-> 1, pc |-> "builtin", devices |-> <<>>] }
  /\ calls = 0
  /\ nScans = 1
  /\ lastScan = [id |-> 0, ok |-> FALSE, shown |-> 0, maxOk |-> 0,
                 maxList |-> <<>>, devices |-> <<>>, usb |-> <<>>]
  /\ sessions = {}
  /\ handoffs = <<>>
  /\ failedUploads = {}
  /\ ev = Plain("mount", 0)

\* ------------------------------------------------------------ permission
\* checkPermissions: Camera.requestPermissions() resolves.
checkPermissions(granted) ==
  /\ hasPermission = "null"
  /\ hasPermission' = IF granted THEN "yes" ELSE "no"
  /\ UNCHANGED ev
  /\ UNCHANGED << cameras, selectedCamera, scans, nScans, lastScan, recVars,
                  gpsVars, camVars, handlers, calls, histVars >>

\* The controls are rendered only once permission is granted.
ControlsShown == hasPermission = "yes"

\* ---------------------------------------------------------- device scan
BuiltinCameras(devices) ==
  [i \in 1..Len(devices) |-> [id |-> devices[i].id, type |-> "built-in"]]

\* The filter letting every USB device through.
IsImaging_any(device) == TRUE

IsImaging(device) == device.class = ImagingClass

UsbCameras(usbDevices) ==
  LET usbCameras == SelectSeq(usbDevices, IsImaging)
  IN  [i \in 1..Len(usbCameras) |-> [id |-> usbCameras[i].deviceId, type |-> "usb"]]

AllCameras(devices, usbDevices) == BuiltinCameras(devices) \o UsbCameras(usbDevices)

\* "Scan for Cameras" pressed: scanForCameras runs to its first await.
scanForCameras ==
  /\ ControlsShown
  /\ nScans < MaxScans
  /\ nScans' = nScans + 1
  /\ scans' = scans \cup { [id |-> nScans + 1, pc |-> "builtin", devices |-> <<>>] }
  /\ UNCHANGED ev
  /\ UNCHANGED << hasPermission, cameras, selectedCamera, lastScan, recVars,
                  gpsVars, camVars, handlers, calls, histVars >>

\* Camera.getAvailableCameras() resolves; UsbManager.getDeviceList() is asked.
ScanBuiltinResolved(s, devices) ==
  /\ s \in scans /\ s.pc = "builtin"
  /\ scans' = (scans \ {s}) \cup { [s EXCEPT !.pc = "usb", !.devices = devices] }
  /\ UNCHANGED ev
  /\ UNCHANGED << hasPermission, cameras, selectedCamera, nScans, lastScan,
                  recVars, gpsVars, camVars, handlers, calls, histVars >>

\* Camera.getAvailableCameras() rejects: the async function ends there.
ScanBuiltinRejected(s) ==
  /\ s \in scans /\ s.pc = "builtin"
  /\ scans' = scans \ {s}
  /\ lastScan' = [lastScan EXCEPT !.id = s.id, !.ok = FALSE]
  /\ UNCHANGED ev
  /\ UNCHANGED << hasPermission, cameras, selectedCamera, nScans, recVars,
                  gpsVars, camVars, handlers, calls, histVars >>

\* The .then callback keeping a selection that is still in the new list.
ScanUsbResolved_keepSelection(s, usbDevices) ==
  /\ s \in scans /\ s.pc = "usb"
  /\ LET allCameras == AllCameras(s.devices, usbDevices)
     IN  /\ cameras' = allCameras
         /\ selectedCamera' =
              IF \E i \in 1..Len(allCameras) : allCameras[i] = selectedCamera
              THEN selectedCamera
              ELSE IF Len(allCameras) > 0 THEN allCameras[1] ELSE selectedCamera
  /\ scans' = scans \ {s}
  /\ lastScan' = [id |-> s.id, ok |-> TRUE, shown |-> s.id,
                  maxOk |-> IF s.id > lastScan.maxOk THEN s.id ELSE lastScan.maxOk,
                  maxList |-> IF s.id > lastScan.maxOk THEN cameras'
                                                       ELSE lastScan.maxList,
                  devices |-> s.devices, usb |-> usbDevices]
  /\ UNCHANGED ev
  /\ UNCHANGED << hasPermission, nScans, recVars, gpsVars, camVars, handlers,
                  calls, histVars >>

\* UsbManager.getDeviceList() resolves: the .then callback runs.
ScanUsbResolved(s, usbDevices) ==
  /\ s \in scans /\ s.pc = "usb"
  /\ LET allCameras == AllCameras(s.devices, usbDevices)
     IN  /\ cameras' = allCameras
         /\ selectedCamera' = IF Len(allCameras) > 0 THEN allCameras[1]
                                                     ELSE selectedCamera
  /\ scans' = scans \ {s}
  /\ lastScan' = [id |-> s.id, ok |-> TRUE, shown |-> s.id,
                  maxOk |-> IF s.id > lastScan.maxOk THEN s.id ELSE lastScan.maxOk,
                  maxList |-> IF s.id > lastScan.maxOk THEN cameras'
                                                       ELSE lastScan.maxList,
                  devices |-> s.devices, usb |-> usbDevices]
  /\ UNCHANGED ev
  /\ UNCHANGED << hasPermission, nScans, recVars, gpsVars, camVars, handlers,
                  calls, histVars >>

\* A rejected USB listing degrading to the built-in cameras alone.
ScanUsbRejected_partial(s) ==
  /\ s \in scans /\ s.pc = "usb"
  /\ scans' = scans \ {s}
  /\ cameras' = BuiltinCameras(s.devices)
  /\ selectedCamera' = IF Len(cameras') > 0 THEN cameras'[1] ELSE selectedCamera
  /\ lastScan' = [lastScan EXCEPT !.id = s.id, !.ok = FALSE]
  /\ UNCHANGED ev
  /\ UNCHANGED << hasPermission, nScans, recVars, gpsVars, camVars, handlers,
                  calls, histVars >>

\* UsbManager.getDeviceList() rejects: no .then callback, no catch.
ScanUsbRejected(s) ==
  /\ s \in scans /\ s.pc = "usb"
  /\ scans' = scans \ {s}
  /\ lastScan' = [lastScan EXCEPT !.id = s.id, !.ok = FALSE]
  /\ UNCHANGED ev
  /\ UNCHANGED << hasPermission, cameras, selectedCamera, nScans, recVars,
                  gpsVars, camVars, handlers, calls, histVars >>

\* A camera option pressed: onPress={() => setSelectedCamera(camera)}.
SelectCamera(i) ==
  /\ ControlsShown
  /\ i \in 1..Len(cameras)
  /\ selectedCamera # cameras[i]
  /\ selectedCamera' = cameras[i]
  /\ UNCHANGED ev
  /\ UNCHANGED << hasPermission, cameras, scans, nScans, lastScan, recVars,
                  gpsVars, camVars, handlers, calls, histVars >>

\* ------------------------------------------------- collaborators (hooks)
\* useGPS.startGpsTracking(): ok is whether sampling could begin
\* (permission granted and a provider available).
startGpsTracking(ok) ==
  /\ gpsActive' = ok
  /\ gpsEnabled' = ok
  /\ hasGpsError' = ~ok
  /\ UNCHANGED gpsLog

\* useGPS.stopGpsTracking(): sampling ends and the sampler is cleared.
stopGpsTracking ==
  /\ gpsActive' = FALSE
  /\ gpsEnabled' = FALSE
  /\ gpsLog' = <<>>
  /\ UNCHANGED hasGpsError

\* useVideoRecording.startTimer() / stopTimer().
startTimer == timerRunning' = TRUE

stopTimer == timerRunning' = FALSE

\* The session a start belongs to is named by the id of its call.
NewId == calls + 1

Handler(id, kind, pc, data, log) ==
  [id |-> id, kind |-> kind, pc |-> pc, data |-> data, log |-> log]

\* ------------------------------------------------------- startRecording
\* startRecording with the camera asked before the sampler.
startRecording_cameraFirst(ok) ==
  IF selectedCamera = NoDevice
  THEN /\ ev' = Event("startRecording", 0, handlers # {}, Idle, FALSE)
       /\ UNCHANGED << deviceVars, recVars, gpsVars, camVars, handlers, calls,
                       histVars >>
  ELSE /\ startGpsTracking(ok)
       /\ isRecording' = TRUE
       /\ startTimer
       /\ camQueue' = Append(camQueue, NewId)
       /\ handlers' = handlers \cup { Handler(NewId, "start", "camera", NoData, <<>>) }
       /\ calls' = NewId
       /\ sessions' = sessions \cup
            { [id |-> NewId, gpsOk |-> ok, gpsAtRequest |-> gpsActive] }
       /\ ev' = Event("startRecording", NewId, handlers # {}, Idle, TRUE)
       /\ UNCHANGED << deviceVars, loading, recordingTime, cam, camSess,
                       handoffs, failedUploads >>

\* startRecording giving up when the sampler could not start.
startRecording_gpsFatal(ok) ==
  IF selectedCamera = NoDevice
  THEN /\ ev' = Event("startRecording", 0, handlers # {}, Idle, FALSE)
       /\ UNCHANGED << deviceVars, recVars, gpsVars, camVars, handlers, calls,
                       histVars >>
  ELSE IF ~ok
  THEN /\ startGpsTracking(ok)
       /\ ev' = Event("startRecording", 0, handlers # {}, Idle, FALSE)
       /\ UNCHANGED << deviceVars, recVars, camVars, handlers, calls, histVars >>
  ELSE /\ startGpsTracking(ok)
       /\ isRecording' = TRUE
       /\ startTimer
       /\ camQueue' = Append(camQueue, NewId)
       /\ handlers' = handlers \cup { Handler(NewId, "start", "camera", NoData, <<>>) }
       /\ calls' = NewId
       /\ sessions' = sessions \cup
            { [id |-> NewId, gpsOk |-> ok, gpsAtRequest |-> gpsActive'] }
       /\ ev' = Event("startRecording", NewId, handlers # {}, Idle, TRUE)
       /\ UNCHANGED << deviceVars, loading, recordingTime, cam, camSess,
                       handoffs, failedUploads >>

\* startRecording up to its await on cameraRef.current.startRecording.
\* ok: the result of startGpsTracking().
startRecording(ok) ==
  IF selectedCamera = NoDevice
  THEN /\ ev' = Event("startRecording", 0, handlers # {}, Idle, FALSE)
       /\ UNCHANGED << deviceVars, recVars, gpsVars, camVars, handlers, calls,
                       histVars >>
  ELSE /\ startGpsTracking(ok)
       /\ isRecording' = TRUE
       /\ startTimer
       /\ camQueue' = Append(camQueue, NewId)
       /\ handlers' = handlers \cup { Handler(NewId, "start", "camera", NoData, <<>>) }
       /\ calls' = NewId
       /\ sessions' = sessions \cup
            { [id |-> NewId, gpsOk |-> ok, gpsAtRequest |-> gpsActive'] }
       /\ ev' = Event("startRecording", NewId, handlers # {}, Idle, TRUE)
       /\ UNCHANGED << deviceVars, loading, recordingTime, cam, camSess,
                       handoffs, failedUploads >>

\* The camera acknowledges the start: the try block of startRecording ends.
CameraStartAck(h) ==
  /\ camQueue # <<>> /\ h \in handlers /\ h.id = Head(camQueue)
  /\ h.kind = "start"
  /\ camQueue' = Tail(camQueue)
  /\ cam' = "recording"
  /\ camSess' = h.id
  /\ handlers' = handlers \ {h}
  /\ ev' = Plain("CameraStartAck", h.id)
  /\ UNCHANGED << deviceVars, recVars, gpsVars, calls, histVars >>

\* The catch block of startRecording without its stopGpsTracking().
startRecordingCatch_gpsLeft(h) ==
  /\ camQueue # <<>> /\ h \in handlers /\ h.id = Head(camQueue)
  /\ h.kind = "start"
  /\ camQueue' = Tail(camQueue)
  /\ isRecording' = FALSE
  /\ stopTimer
  /\ handlers' = handlers \ {h}
  /\ ev' = Plain("startRecordingCatch", h.id)
  /\ UNCHANGED << deviceVars, loading, recordingTime, gpsVars, cam, camSess,
                  calls, histVars >>

\* The camera rejects the start: the catch block of startRecording runs.
startRecordingCatch(h) ==
  /\ camQueue # <<>> /\ h \in handlers /\ h.id = Head(camQueue)
  /\ h.kind = "start"
  /\ camQueue' = Tail(camQueue)
  /\ stopGpsTracking
  /\ isRecording' = FALSE
  /\ stopTimer
  /\ handlers' = handlers \ {h}
  /\ ev' = Plain("startRecordingCatch", h.id)
  /\ UNCHANGED << deviceVars, loading, recordingTime, cam, camSess, calls,
                  histVars >>

\* -------------------------------------------------------- stopRecording
\* stopRecording up to its await on cameraRef.current.stopRecording().
stopRecording ==
  /\ camQueue' = Append(camQueue, NewId)
  /\ handlers' = handlers \cup { Handler(NewId, "stop", "camera", NoData, <<>>) }
  /\ calls' = NewId
  /\ ev' = Event("stopRecording", NewId, handlers # {}, Idle, TRUE)
  /\ UNCHANGED << deviceVars, recVars, gpsVars, cam, camSess, histVars >>

\* useVideoRecording.getRecordingDuration(): the elapsed time the hook has
\* counted.
getRecordingDuration == recordingTime

\* useVideoUpload.uploadRecording up to its await on the upload pipeline:
\* the busy flag is raised, sampling is stopped and its log captured, and
\* artifact and log are submitted.
uploadRecording(h, data, duration) ==
  /\ loading' = TRUE
  /\ stopGpsTracking
  /\ handoffs' = Append(handoffs, [h |-> h.id, data |-> data, log |-> gpsLog,
                                   duration |-> duration])
  /\ handlers' = (handlers \ {h}) \cup { Handler(h.id, "stop", "upload", data, gpsLog) }

\* The continuation of stopRecording without its stopTimer().
stopRecordingData_timerLeft(h, camDuration) ==
  /\ camQueue # <<>> /\ h \in handlers /\ h.id = Head(camQueue)
  /\ h.kind = "stop"
  /\ cam \in {"recording", "capped"}
  /\ camQueue' = Tail(camQueue)
  /\ cam' = "idle"
  /\ camSess' = 0
  /\ uploadRecording(h, [sess |-> camSess, duration |-> camDuration],
                     getRecordingDuration)
  /\ ev' = Plain("stopRecordingData", h.id)
  /\ UNCHANGED << deviceVars, isRecording, recordingTime, timerRunning, calls,
                  sessions, failedUploads >>

\* The camera returns the artifact, camDuration being the duration it
\* reports for it: stopTimer(), then uploadRecording(...).
stopRecordingData(h, camDuration) ==
  /\ camQueue # <<>> /\ h \in handlers /\ h.id = Head(camQueue)
  /\ h.kind = "stop"
  /\ cam \in {"recording", "capped"}
  /\ camQueue' = Tail(camQueue)
  /\ cam' = "idle"
  /\ camSess' = 0
  /\ stopTimer
  /\ uploadRecording(h, [sess |-> camSess, duration |-> camDuration],
                     getRecordingDuration)
  /\ ev' = Plain("stopRecordingData", h.id)
  /\ UNCHANGED << deviceVars, isRecording, recordingTime, calls, sessions,
                  failedUploads >>

\* The camera rejects the stop: the catch block of stopRecording runs.
\* Whether a capture in progress survived the failed stop is the camera's
\* business: both outcomes are allowed.
stopRecordingCatch(h, after) ==
  /\ camQueue # <<>> /\ h \in handlers /\ h.id = Head(camQueue)
  /\ h.kind = "stop"
  /\ camQueue' = Tail(camQueue)
  /\ cam' = after
  /\ camSess' = IF after = "idle" THEN 0 ELSE camSess
  /\ handlers' = handlers \ {h}
  /\ ev' = Plain("stopRecordingCatch", h.id)
  /\ UNCHANGED << deviceVars, recVars, gpsVars, calls, histVars >>

\* The upload pipeline reports its outcome: uploadRecording resets the
\* session through the setters it was given and stopRecording returns.
stopRecordingUploaded(h, success) ==
  /\ h \in handlers /\ h.pc = "upload"
  /\ loading' = FALSE
  /\ isRecording' = FALSE
  /\ recordingTime' = 0
  /\ handlers' = handlers \ {h}
  /\ failedUploads' = IF success THEN failedUploads
                                 ELSE failedUploads \cup {h.data}
  /\ ev' = Event("stopRecordingUploaded", h.id, FALSE, FALSE, success)
  /\ UNCHANGED << deviceVars, timerRunning, gpsVars, camVars, calls, sessions,
                  handoffs >>

\* ---------------------------------------------------------- environment
\* The camera reaches maxDuration (300 s) or maxFileSize (50 MB) and ends
\* the capture on its own.
CapTrip ==
  /\ cam = "recording"
  /\ cam' = "capped"
  /\ ev' = Plain("CapTrip", camSess)
  /\ UNCHANGED << deviceVars, recVars, gpsVars, camSess, camQueue, handlers,
                  calls, histVars >>

\* One tick of the elapsed-time interval.
Tick ==
  /\ timerRunning
  /\ recordingTime < MaxTime
  /\ recordingTime' = recordingTime + 1
  /\ UNCHANGED ev
  /\ UNCHANGED << deviceVars, loading, isRecording, timerRunning, gpsVars,
                  camVars, handlers, calls, histVars >>

\* One position fix, tagged with the session running when it arrives.
GpsFix ==
  /\ gpsActive
  /\ Len(gpsLog) < MaxLog
  /\ gpsLog' = Append(gpsLog, CurrentSession)
  /\ UNCHANGED ev
  /\ UNCHANGED << deviceVars, recVars, gpsActive, gpsEnabled, hasGpsError,
                  camVars, handlers, calls, histVars >>

\* ------------------------------------------------------ the record button
\* disabled={loading || !selectedCamera}
ButtonEnabled == ControlsShown /\ ~(loading \/ selectedCamera = NoDevice)

\* onPress={isRecording ? stopRecording : startRecording}
PressStart ==
  /\ ButtonEnabled /\ ~isRecording
  /\ calls < MaxCalls
  /\ \E ok \in BOOLEAN : startRecording(ok)

PressStop ==
  /\ ButtonEnabled /\ isRecording
  /\ calls < MaxCalls
  /\ stopRecording

\* The handlers called directly, whatever the button shows.
CallStart ==
  /\ ControlsShown
  /\ calls < MaxCalls
  /\ \E ok \in BOOLEAN : startRecording(ok)

CallStop ==
  /\ ControlsShown
  /\ calls < MaxCalls
  /\ stopRecording

\* ------------------------------------------------------- specifications
Background ==
  \/ \E granted \in BOOLEAN : checkPermissions(granted)
  \/ scanForCameras
  \/ \E s \in scans, devices \in BuiltinLists : ScanBuiltinResolved(s, devices)
  \/ \E s \in scans : ScanBuiltinRejected(s)
  \/ \E s \in scans, usbDevices \in UsbLists : ScanUsbResolved(s, usbDevices)
  \/ \E s \in scans : ScanUsbRejected(s)
  \/ \E i \in 1..Len(cameras) : SelectCamera(i)
  \/ \E h \in handlers : CameraStartAck(h)
  \/ \E h \in handlers : startRecordingCatch(h)
  \/ \E h \in handlers, camDuration \in CamDurations :
       stopRecordingData(h, camDuration)
  \/ \E h \in handlers, after \in {cam, "idle"} : stopRecordingCatch(h, after)
  \/ \E h \in handlers, success \in BOOLEAN : stopRecordingUploaded(h, success)
  \/ CapTrip
  \/ Tick
  \/ GpsFix

\* The component as shipped: the handlers run when the button calls them.
Next == Background \/ PressStart \/ PressStop

Spec == Init /\ [][Next]_vars

\* The coordinator's handlers as an interface: any caller, any moment.
NextApi == Background \/ CallStart \/ CallStop

SpecApi == Init /\ [][NextApi]_vars

\* The device registry alone: permission, scans, selections.
NextScan ==
  \/ \E granted \in BOOLEAN : checkPermissions(granted)
  \/ scanForCameras
  \/ \E s \in scans, devices \in AnyBuiltinLists : ScanBuiltinResolved(s, devices)
  \/ \E s \in scans : ScanBuiltinRejected(s)
  \/ \E s \in scans, usbDevices \in AnyUsbLists : ScanUsbResolved(s, usbDevices)
  \/ \E s \in scans : ScanUsbRejected(s)
  \/ \E i \in 1..Len(cameras) : SelectCamera(i)

SpecScan == Init /\ [][NextScan]_vars

\* ================================================================ claims

\* C1: a call of startRecording made while the session is not Idle, or
\* while no device is selected, is rejected: it changes nothing and starts
\* neither the sampler, nor the timer, nor the camera.
C1_StartRejectedUnlessIdle ==
  (ev.type = "startRecording" /\ ~ev.idle) => ~ev.accepted

\* C2: when the camera rejects the start, the session is back to not
\* recording with the timer stopped, and the sampler is stopped with its
\* partial log discarded.
C2_FailedStartReleasesGps ==
  ev.type = "startRecordingCatch" =>
    /\ ~isRecording
    /\ ~timerRunning
    /\ ~gpsActive
    /\ gpsLog = <<>>

\* The camera has just rejected the start of a session whose sampler had
\* started.
C2_Witness ==
  /\ ev.type = "startRecordingCatch"
  /\ SessionOf(ev.h).gpsOk
  /\ handlers = {}

\* C3: once the camera has ended the capture at one of its caps, the
\* session is on the stop path: a stopRecording is under way.
C3_CapTripStops ==
  cam = "capped" => InFlight("stop") # {}

\* C4: when the camera rejects the stop, the teardown still happens: the
\* sampler is stopped, the timer is stopped, the session is not recording.
C4_FailedStopTearsDown ==
  ev.type = "stopRecordingCatch" =>
    /\ ~gpsActive
    /\ ~timerRunning
    /\ ~isRecording

\* C5: the artifact of every upload that reported failure is still held by
\* the coordinator.
C5_FailedArtifactRetained ==
  \A a \in failedUploads : \E h \in handlers : h.data = a

\* C6: a call of stopRecording made while the session is Idle requests no
\* camera stop and no upload.
C6_StopOnIdleIsNoOp ==
  (ev.type = "stopRecording" /\ ev.idle) => ~ev.accepted

C8_GpsWindowCoversCamera ==
  /\ \A s \in sessions : s.gpsOk => s.gpsAtRequest
  /\ (cam = "recording" /\ SessionOf(camSess).gpsOk) => gpsActive
  /\ \A i \in 1..Len(handoffs) :
       cam = "recording" => camSess # handoffs[i].data.sess

\* A session was sampled during capture and its log taken after the camera
\* stop returned.
C8_Witness ==
  /\ handoffs # <<>>
  /\ handoffs[1].log # <<>>
  /\ SessionOf(handoffs[1].data.sess).gpsOk

\* C9: a sampler that could not start does not abort the recording: the
\* call goes on to record and to ask the camera, the error flag is up while
\* the camera captures, and the artifact is handed off with an empty log.
C9_GpsFailureIsNotFatal ==
  /\ (ev.type = "startRecording" /\ hasGpsError) =>
       /\ ev.accepted
       /\ isRecording
       /\ camQueue # <<>> /\ camQueue[Len(camQueue)] = ev.h
  /\ (cam = "recording" /\ ~SessionOf(camSess).gpsOk) =>
       /\ isRecording
       /\ hasGpsError
       /\ ~gpsEnabled
  /\ \A i \in 1..Len(handoffs) :
       ~SessionOf(handoffs[i].data.sess).gpsOk => handoffs[i].log = <<>>

\* The artifact of a session whose sampler could not start has been handed
\* off.
C9_Witness ==
  /\ handoffs # <<>>
  /\ ~SessionOf(handoffs[1].data.sess).gpsOk
  /\ hasGpsError

StopSession(h) ==
  LET before == { s.id : s \in sessions } \cap (0..h.id)
  IN  IF before = {} THEN 0
      ELSE CHOOSE n \in before : \A k \in before : k <= n

\* C11: the log handed to the upload with an artifact holds only fixes
\* sampled during that artifact's own session.
C11_LogIsOfOwnSession ==
  \A i \in 1..Len(handoffs) :
    \A j \in 1..Len(handoffs[i].log) :
      handoffs[i].log[j] = handoffs[i].data.sess

\* A log with a fix in it has been handed off after an earlier session
\* whose start had failed with the sampler running.
C11_Witness ==
  /\ handoffs # <<>>
  /\ handoffs[1].log # <<>>
  /\ \E s \in sessions : s.id < handoffs[1].data.sess /\ s.gpsOk

\* C12: for every session the camera is asked to stop at most once, and the
\* artifact of a session is handed to the upload at most once.
C12_OneStopOneHandoff ==
  /\ \A h1, h2 \in InFlight("stop") :
       StopSession(h1) = StopSession(h2) => h1 = h2
  /\ \A i, j \in 1..Len(handoffs) :
       handoffs[i].data.sess = handoffs[j].data.sess => i = j

\* C17: whenever the session is Idle (not recording, no handler suspended),
\* the timer is not running and the sampler is not sampling.
C17_IdleHoldsNothing ==
  (~isRecording /\ handlers = {}) => (~timerRunning /\ ~gpsActive)

\* The session is Idle again after a start that failed and after a
\* recording that was stopped and uploaded.
C17_Witness ==
  /\ ~isRecording /\ handlers = {}
  /\ handoffs # <<>>
  /\ \E s \in sessions : s.gpsOk /\ \A i \in 1..Len(handoffs) :
                                       handoffs[i].data.sess # s.id

\* C18: while the session is not Idle, the selected device does not change.
C18_SelectionFixedWhileRecording ==
  [][~Idle => selectedCamera' = selectedCamera]_vars

\* The list shown holds a camera of the given id and type.
Listed(id, type) ==
  \E i \in 1..Len(cameras) : cameras[i] = [id |-> id, type |-> type]

\* C13: the list shown holds no USB device whose class is not 6, and holds
\* every built-in device and every class-6 USB device of the two lists the
\* scan was given.
C13_OnlyImagingUsbListed ==
  lastScan.shown # 0 =>
    /\ \A j \in 1..Len(lastScan.usb) :
         Listed(lastScan.usb[j].deviceId, "usb") <=> lastScan.usb[j].class = 6
    /\ \A j \in 1..Len(lastScan.devices) :
         Listed(lastScan.devices[j].id, "built-in")
    /\ \A i \in 1..Len(cameras) :
         \/ /\ cameras[i].type = "built-in"
            /\ \E j \in 1..Len(lastScan.devices) :
                 lastScan.devices[j].id = cameras[i].id
         \/ /\ cameras[i].type = "usb"
            /\ \E j \in 1..Len(lastScan.usb) :
                 /\ lastScan.usb[j].deviceId = cameras[i].id
                 /\ lastScan.usb[j].class = 6

\* A scan given a built-in camera, an imaging and a non-imaging USB device
\* has completed.
C13_Witness ==
  /\ lastScan.shown # 0
  /\ Len(lastScan.devices) > 0
  /\ \E j, k \in 1..Len(lastScan.usb) :
       lastScan.usb[j].class = 6 /\ lastScan.usb[k].class # 6
  /\ Len(cameras) = Len(lastScan.devices) + 1

\* C14: a scan one of whose enumerations fails leaves the device list and
\* the selection as they were.
C14_FailedScanChangesNothing ==
  [][(lastScan'.id # lastScan.id /\ ~lastScan'.ok) =>
       (cameras' = cameras /\ selectedCamera' = selectedCamera)]_vars

\* A scan has failed while a list from an earlier scan was shown.
C14_Witness ==
  /\ lastScan.id # 0 /\ ~lastScan.ok
  /\ lastScan.shown # 0 /\ lastScan.shown # lastScan.id
  /\ cameras # <<>>
  /\ selectedCamera # NoDevice

\* C15: the selected device is none or a device of the list shown.
C15_SelectionIsListed ==
  \/ selectedCamera = NoDevice
  \/ \E i \in 1..Len(cameras) : cameras[i].id = selectedCamera.id

\* C19: the list shown is the merged result of one scan, and once every
\* scan has completed it is the result of the scan started last among
\* those that succeeded.
C19_LastStartedScanWins ==
  /\ lastScan.shown # 0 => cameras = AllCameras(lastScan.devices, lastScan.usb)
  /\ (scans = {} /\ lastScan.maxOk # 0) => cameras = lastScan.maxList

\* C20: a scan completing with a non-empty list selects its first element;
\* a scan completing with an empty list leaves the selection as it was.
C20_ScanSelectsFirst ==
  [][(lastScan'.id # lastScan.id /\ lastScan'.ok) =>
       selectedCamera' = IF Len(cameras') > 0 THEN cameras'[1]
                                              ELSE selectedCamera]_vars

\* A scan has completed with an empty list and the earlier selection is
\* still there.
C20_Witness ==
  /\ lastScan.ok /\ lastScan.shown = lastScan.id
  /\ cameras = <<>>
  /\ selectedCamera # NoDevice

\* C16: the duration handed to the upload with an artifact is the duration
\* the camera reported for that artifact.
C16_DurationIsCameras ==
  \A i \in 1..Len(handoffs) : handoffs[i].duration = handoffs[i].data.duration

====
